---- MODULE Spec2Model ----
(***************************************************************************)
(* gevent.lock in PURE_PYTHON mode: RLock over _AtomicSemaphore over       *)
(* _OwnedLock.  Greenlets ("tasks") run on one hub thread and switch only  *)
(* inside the wait of Semaphore.acquire, so every action below is one run  *)
(* of a greenlet from a call (or a resumption) to the next suspension      *)
(* point or return.                                                        *)
(***************************************************************************)
EXTENDS Integers, Sequences, FiniteSets, TLC

\* ---------------------------------------------------------------- bounds
NumTasks == 3
MaxCount == 3
MaxLocking == 6
NumThreads == 2
MaxDummyCalls == 3

Tasks == 1 .. NumTasks
None == 0
MainThread == 1
Threads == 1 .. NumThreads

VARIABLES
    owner,      \* RLock._owner: a task or None
    count,      \* RLock._count
    counter,    \* Semaphore.counter of RLock._block
    links,      \* the semaphore's waiters, in arrival order
    lock_lock,  \* _AtomicSemaphore._lock_lock, an _OwnedLock
    pc,         \* where each task is: idle, acquire_wait, saved, restore_wait
    timed,      \* the waiting task gave a timeout
    saved,      \* the tuple a task got from _release_save
    held,       \* history: successful acquires of a task not yet released
    last,       \* history: the call or resumption that ran last
    scope,      \* history: the with-blocks a task is in, and how it left the last
    dummy       \* history: the calls made on a DummySemaphore

vars == <<owner, count, counter, links, lock_lock, pc, timed, saved, held, last,
          scope, dummy>>

\* ------------------------------------------------------------ _OwnedLock
\* _OwnedLock.__init__; locking[me] = 0 stands for "no entry for me".
\* History: "net", calls of acquire minus calls of release; "inside", the same
\* for each thread; "holder", the thread whose _block.acquire() took the OS
\* mutex; "body", the gate as the code bracketed by it last found it.
GateInit ==
    [owner |-> None, block |-> FALSE, count |-> 0,
     locking |-> [th \in Threads |-> 0], net |-> 0,
     inside |-> [th \in Threads |-> 0], holder |-> None,
     body |-> [owner |-> None, count |-> 0, block |-> FALSE]]

\* mutant: the first entry of a thread proceeds
NotCountFirst(c) == c = 1

\* "if not count" of __begin: Python truth of an integer
NotCount(c) == c = 0

\* _OwnedLock.__begin: bump the thread's re-entry count and say whether to
\* proceed; (me, count) when proceeding, else (None, None).
Begin(g, me) ==
    LET c == g.locking[me] + 1
    IN  [g |-> [g EXCEPT !.locking[me] = c],
         me |-> IF NotCount(c) THEN me ELSE None,
         count |-> IF NotCount(c) THEN c ELSE None]

\* _OwnedLock.__end
End(g, me, c) ==
    IF me = None THEN g
    ELSE IF c - 1 = 0 THEN [g EXCEPT !.locking[me] = 0]
    ELSE [g EXCEPT !.locking[me] = c - 1]

\* _OwnedLock.__enter__ / acquire.  With the OS mutex held by another thread
\* the caller has assigned _owner and sleeps in _block.acquire().
GateAcquire(g0, me) ==
    LET b == Begin([g0 EXCEPT !.net = @ + 1, !.inside[me] = @ + 1], me)
        g == b.g
    IN  IF b.me = None THEN End(g, b.me, b.count)
        ELSE IF g.owner = me THEN End([g EXCEPT !.count = @ + 1], b.me, b.count)
        ELSE IF g.block THEN [g EXCEPT !.owner = me]
        ELSE End([g EXCEPT !.owner = me, !.block = TRUE, !.holder = me,
                           !.count = 1], b.me, b.count)

\* _OwnedLock.release / __exit__
GateRelease(g0, me) ==
    LET b == Begin([g0 EXCEPT !.net = @ - 1, !.inside[me] = @ - 1], me)
        g == b.g
        body == IF b.me = None THEN g
                ELSE IF g.count - 1 = 0
                     THEN [g EXCEPT !.count = 0, !.block = FALSE,
                                    !.holder = None, !.owner = None]
                     ELSE [g EXCEPT !.count = @ - 1]
    IN  End(body, b.me, b.count)

\* the gate as the code it brackets finds it
Bracketed(g) ==
    [g EXCEPT !.body = [owner |-> g.owner, count |-> g.count, block |-> g.block]]

ThreadOf(t) == MainThread

\* ------------------------------------------------- Semaphore (the base class)
\* gevent._semaphore.Semaphore: ready(), counter > 0
SemReady(c) == c > 0

\* a call that must not wait: blocking false, or a timeout of 0 (a poll)
Timeouts == {"none", "zero", "pos"}
NonBlocking(blocking, timeout) == ~blocking \/ timeout = "zero"

\* Semaphore.acquire up to its return or its wait
SemTry(c, blocking, timeout) ==
    IF SemReady(c) THEN "true"
    ELSE IF NonBlocking(blocking, timeout) THEN "false"
    ELSE "suspended"

\* Semaphore.release: the counter after it
SemRelease(c) == c + 1

\* the waiter list without t
Unlink(seq, t) == SelectSeq(seq, LAMBDA x : x # t)

\* ------------------------------------------------------ _AtomicSemaphore
\* "with self._lock_lock:" entered, at the head of acquire, release, wait
WithEnter(g, me) == Bracketed(GateAcquire(g, me))

\* "with self._lock_lock:" left, by return or by exception
WithExit(g, me) == GateRelease(g, me)

\* _AtomicSemaphore._wait before the suspension
WaitEnter(g, me) == GateRelease(g, me)

\* mutant: _wait does not take the gate again
WaitExitNone(g, me) == g

\* _AtomicSemaphore._wait after it, the finally clause
WaitExit(g, me) == Bracketed(GateAcquire(g, me))

\* _AtomicSemaphore.release: the gate after it
AtomicRelease(g, me) == WithExit(WithEnter(g, me), me)

\* ----------------------------------------------------------------- RLock
\* mutant: the owner is never recognised
IsOwnerNever(t) == FALSE

\* "self._owner is me"
IsOwner(t) == owner = t

\* mutant: release does not test the owner
NotOwnerUnchecked(t) == FALSE

\* mutant: the test misses the unlocked lock
NotOwnerLocked(t) == owner # t /\ owner # None

\* "self._owner is not getcurrent()" of release
NotOwner(t) == owner # t

\* mutant: the owner's acquire sets count as a first acquire does
CountReset(c) == 1

\* "self._count = self._count + 1" of the owner's acquire
CountAfterReacquire(c) == c + 1

\* mutant: the result of the semaphore is not tested
RcAny(rc) == TRUE

\* "if rc:" of acquire
RcTrue(rc) == rc = "true"

\* mutants: every release frees the lock; no release does
ReleaseFreesAlways(c) == TRUE
ReleaseFreesNever(c) == FALSE

\* "if not count:" of release
ReleaseFrees(c) == c = 0

\* mutant: the restored count is that of a first acquire
RestoredCountOne(co) == 1

\* _acquire_restore: what it assigns from the tuple
RestoredCount(co) == co[1]
RestoredOwner(co) == co[2]

\* mutant: _acquire_restore does not wait
RestoreNonBlocking == FALSE

\* _acquire_restore calls self._block.acquire() with its defaults (blocking,
\* no timeout) and ignores what it returns
RestoreBlocking == TRUE

\* mutant: the tuple is read after the fields are cleared
SavedTupleAfter(c, o) == <<0, None>>

\* _release_save: the tuple it returns, read before the fields are cleared
SavedTuple(c, o) == <<c, o>>

NoTuple == <<0, None>>

Ret(op, step, t, ret, val) ==
    [op |-> op, step |-> step, task |-> t, ret |-> ret, val |-> val]

Init ==
    /\ owner = None
    /\ count = 0
    /\ counter = 1
    /\ links = <<>>
    /\ lock_lock = GateInit
    /\ pc = [t \in Tasks |-> "idle"]
    /\ timed = [t \in Tasks |-> FALSE]
    /\ saved = [t \in Tasks |-> NoTuple]
    /\ held = [t \in Tasks |-> 0]
    /\ last = Ret("init", "call", None, "none", NoTuple)
    /\ scope = [t \in Tasks |-> [stack |-> <<>>, left |-> "none"]]
    /\ dummy = [acquires |-> 0, releases |-> 0]

\* RLock.acquire(blocking, timeout), up to its return or its suspension
Acquire(t, blocking, timeout) ==
    /\ pc[t] = "idle"
    /\ IF IsOwner(t)
       THEN /\ count < MaxCount
            /\ count' = CountAfterReacquire(count)
            /\ held' = [held EXCEPT ![t] = @ + 1]
            /\ last' = Ret("acquire", "call", t, "true", NoTuple)
            /\ UNCHANGED <<owner, counter, links, lock_lock, pc, timed, saved>>
       ELSE LET me == ThreadOf(t)
                rc == SemTry(counter, blocking, timeout)
                g1 == WithEnter(lock_lock, me)
            IN  /\ lock_lock.locking[me] < MaxLocking
                /\ counter' = IF rc = "true" THEN counter - 1 ELSE counter
                /\ links' = IF rc = "suspended" THEN Append(links, t) ELSE links
                /\ lock_lock' = IF rc = "suspended" THEN WaitEnter(g1, me)
                                 ELSE WithExit(g1, me)
                /\ pc' = IF rc = "suspended"
                         THEN [pc EXCEPT ![t] = "acquire_wait"] ELSE pc
                /\ timed' = [timed EXCEPT ![t] = rc = "suspended" /\ timeout # "none"]
                /\ owner' = IF rc # "suspended" /\ RcTrue(rc) THEN t ELSE owner
                /\ count' = IF rc # "suspended" /\ RcTrue(rc) THEN 1 ELSE count
                /\ held' = IF rc = "true" THEN [held EXCEPT ![t] = @ + 1] ELSE held
                /\ last' = Ret("acquire", "call", t, rc, NoTuple)
                /\ UNCHANGED saved

\* the hub's notifier switches to the longest waiting task while the
\* semaphore is ready; the task leaves _wait, takes the slot and returns
\* from Semaphore.acquire into RLock.acquire or RLock._acquire_restore
Wake(t) ==
    /\ pc[t] \in {"acquire_wait", "restore_wait"}
    /\ links # <<>>
    /\ Head(links) = t
    /\ SemReady(counter)
    /\ links' = Tail(links)
    /\ counter' = counter - 1
    /\ lock_lock' = WithExit(WaitExit(lock_lock, ThreadOf(t)), ThreadOf(t))
    /\ pc' = [pc EXCEPT ![t] = "idle"]
    /\ timed' = [timed EXCEPT ![t] = FALSE]
    /\ IF pc[t] = "acquire_wait"
       THEN /\ owner' = IF RcTrue("true") THEN t ELSE owner
            /\ count' = IF RcTrue("true") THEN 1 ELSE count
            /\ held' = [held EXCEPT ![t] = @ + 1]
            /\ last' = Ret("acquire", "resume", t, "true", NoTuple)
            /\ UNCHANGED saved
       ELSE /\ count' = RestoredCount(saved[t])
            /\ owner' = RestoredOwner(saved[t])
            /\ held' = [held EXCEPT ![t] = saved[t][1]]
            /\ last' = Ret("acquire_restore", "resume", t, "done", saved[t])
            /\ saved' = [saved EXCEPT ![t] = NoTuple]

\* the timeout of a waiting acquire expires: _wait returns false
Timeout(t) ==
    /\ pc[t] = "acquire_wait"
    /\ timed[t]
    /\ links' = Unlink(links, t)
    /\ lock_lock' = WithExit(WaitExit(lock_lock, ThreadOf(t)), ThreadOf(t))
    /\ pc' = [pc EXCEPT ![t] = "idle"]
    /\ timed' = [timed EXCEPT ![t] = FALSE]
    /\ owner' = IF RcTrue("false") THEN t ELSE owner
    /\ count' = IF RcTrue("false") THEN 1 ELSE count
    /\ last' = Ret("acquire", "resume", t, "false", NoTuple)
    /\ UNCHANGED <<counter, saved, held>>

\* the scheduler raises an exception into a waiting task: it leaves _wait
\* through the finally clause, the with block, and the RLock method
Cancel(t) ==
    /\ pc[t] \in {"acquire_wait", "restore_wait"}
    /\ links' = Unlink(links, t)
    /\ lock_lock' = WithExit(WaitExit(lock_lock, ThreadOf(t)), ThreadOf(t))
    /\ pc' = [pc EXCEPT ![t] = "idle"]
    /\ timed' = [timed EXCEPT ![t] = FALSE]
    /\ saved' = [saved EXCEPT ![t] = NoTuple]
    /\ last' = Ret(IF pc[t] = "acquire_wait" THEN "acquire" ELSE "acquire_restore",
                   "resume", t, "cancelled", NoTuple)
    /\ UNCHANGED <<owner, count, counter, held>>

\* RLock.release
Release(t) ==
    /\ pc[t] = "idle"
    /\ IF NotOwner(t)
       THEN /\ last' = Ret("release", "call", t, "RuntimeError", NoTuple)
            /\ UNCHANGED <<owner, count, counter, links, lock_lock, pc, timed,
                           saved, held>>
       ELSE /\ count' = count - 1
            /\ held' = [held EXCEPT ![t] = @ - 1]
            /\ last' = Ret("release", "call", t, "none", NoTuple)
            /\ IF ReleaseFrees(count - 1)
               THEN /\ owner' = None
                    /\ counter' = SemRelease(counter)
                    /\ lock_lock' = AtomicRelease(lock_lock, ThreadOf(t))
               ELSE UNCHANGED <<owner, counter, lock_lock>>
            /\ UNCHANGED <<links, pc, timed, saved>>

\* RLock._release_save: it tests nothing
ReleaseSaveCall(t) ==
    /\ pc[t] = "idle"
    /\ lock_lock.locking[ThreadOf(t)] < MaxLocking
    /\ count' = 0
    /\ owner' = None
    /\ counter' = SemRelease(counter)
    /\ lock_lock' = AtomicRelease(lock_lock, ThreadOf(t))
    /\ saved' = [saved EXCEPT ![t] = SavedTuple(count, owner)]
    /\ pc' = [pc EXCEPT ![t] = "saved"]
    /\ held' = [held EXCEPT ![t] = 0]
    /\ last' = Ret("release_save", "call", t, "done", SavedTuple(count, owner))
    /\ UNCHANGED <<links, timed>>

\* RLock._release_save, called by the owner (Condition.wait)
ReleaseSave(t) ==
    /\ IsOwner(t)
    /\ ReleaseSaveCall(t)

\* RLock._acquire_restore with the tuple of the task's own _release_save,
\* up to its return or its suspension
AcquireRestore(t) ==
    /\ pc[t] = "saved"
    /\ LET me == ThreadOf(t)
           rc == SemTry(counter, RestoreBlocking, "none")
           g1 == WithEnter(lock_lock, me)
       IN  IF rc # "suspended"
           THEN /\ counter' = IF rc = "true" THEN counter - 1 ELSE counter
                /\ lock_lock' = WithExit(g1, me)
                /\ count' = RestoredCount(saved[t])
                /\ owner' = RestoredOwner(saved[t])
                /\ held' = [held EXCEPT ![t] = saved[t][1]]
                /\ pc' = [pc EXCEPT ![t] = "idle"]
                /\ saved' = [saved EXCEPT ![t] = NoTuple]
                /\ last' = Ret("acquire_restore", "call", t, "done", saved[t])
                /\ UNCHANGED <<links, timed>>
           ELSE /\ links' = Append(links, t)
                /\ lock_lock' = WaitEnter(g1, me)
                /\ pc' = [pc EXCEPT ![t] = "restore_wait"]
                /\ last' = Ret("acquire_restore", "call", t, "suspended", saved[t])
                /\ UNCHANGED <<owner, count, counter, timed, saved, held>>

\* RLock._is_owned
IsOwned(t) ==
    /\ pc[t] = "idle"
    /\ last' = Ret("is_owned", "call", t, IF IsOwner(t) THEN "true" ELSE "false",
                   NoTuple)
    /\ UNCHANGED <<owner, count, counter, links, lock_lock, pc, timed, saved, held>>

\* calls on the RLock proper leave the other histories alone
Plain == UNCHANGED <<scope, dummy>>

Next ==
    \E t \in Tasks :
        \/ \E blocking \in BOOLEAN, timeout \in Timeouts :
              Acquire(t, blocking, timeout) /\ Plain
        \/ Wake(t) /\ Plain
        \/ Timeout(t) /\ Plain
        \/ Cancel(t) /\ Plain
        \/ Release(t) /\ Plain
        \/ ReleaseSave(t) /\ Plain
        \/ AcquireRestore(t) /\ Plain
        \/ IsOwned(t) /\ Plain

Spec == Init /\ [][Next]_vars

\* _release_save is called on a held lock by any task, the owner or not; the
\* caller later passes the tuple it got to _acquire_restore
MisuseNext ==
    \E t \in Tasks :
        \/ \E blocking \in BOOLEAN, timeout \in Timeouts :
              Acquire(t, blocking, timeout) /\ Plain
        \/ Wake(t) /\ Plain
        \/ Timeout(t) /\ Plain
        \/ Cancel(t) /\ Plain
        \/ Release(t) /\ Plain
        \/ owner # None /\ ReleaseSaveCall(t) /\ Plain
        \/ AcquireRestore(t) /\ Plain
        \/ IsOwned(t) /\ Plain

MisuseSpec == Init /\ [][MisuseNext]_vars

\* ----------------------------------------------------------------- types
TypeOK ==
    /\ owner \in Tasks \cup {None}
    /\ count \in 0 .. MaxCount
    /\ counter \in 0 .. 1
    /\ \A t \in Tasks : pc[t] \in {"idle", "acquire_wait", "saved", "restore_wait"}

\* the scheduler runs the notifier of a ready semaphore again and again:
\* a waiter at the head of the list that is ready infinitely often is woken
FairSpec == Spec /\ SF_vars(\E t \in Tasks : Wake(t) /\ Plain)

Waiting(t) == pc[t] \in {"acquire_wait", "restore_wait"}
Holders == {t \in Tasks : held[t] > 0}

\* ------------------------------------------------ RLock as context manager
\* mutant: __exit__ releases only when the body returned
ExitReleasesOnReturn(raised) == ~raised

\* RLock.__exit__(typ, value, tb) calls release() whatever typ is
ExitReleases(raised) == TRUE

Push(t, c) == [scope EXCEPT ![t].stack = Append(@, c)]

\* RLock.__enter__: "return self.acquire()", up to its return or suspension;
\* the block is entered when acquire has returned
Enter(t) ==
    /\ Acquire(t, TRUE, "none")
    /\ scope' = IF pc'[t] = "idle" THEN Push(t, count) ELSE scope
    /\ UNCHANGED dummy

\* the acquire of a suspended __enter__ returns: the block is entered
EnterWake(t) ==
    /\ Wake(t)
    /\ scope' = Push(t, count)
    /\ UNCHANGED dummy

\* an exception raised into a suspended __enter__: the block is not entered
EnterCancel(t) ==
    /\ Cancel(t)
    /\ UNCHANGED <<scope, dummy>>

\* the innermost with-block of t is left, by return or by an exception of
\* its body: RLock.__exit__
Exit(t, raised) ==
    /\ pc[t] = "idle"
    /\ scope[t].stack # <<>>
    /\ IF ExitReleases(raised)
       THEN Release(t)
       ELSE /\ last' = Ret("exit", "call", t, "none", NoTuple)
            /\ UNCHANGED <<owner, count, counter, links, lock_lock, pc, timed,
                           saved, held>>
    /\ scope' = [scope EXCEPT ![t].stack = SubSeq(@, 1, Len(@) - 1),
                              ![t].left = IF raised THEN "raise" ELSE "return"]
    /\ UNCHANGED dummy

ScopeNext ==
    \E t \in Tasks :
        \/ Enter(t)
        \/ EnterWake(t)
        \/ EnterCancel(t)
        \/ \E raised \in BOOLEAN : Exit(t, raised)

\* tasks that use the lock through with-blocks only
ScopeSpec == Init /\ [][ScopeNext]_vars

\* ------------------------------------------------- _OwnedLock used directly
\* a call of a gate method by thread th; the tasks and the RLock stand still
GateCall(th, op) ==
    /\ lock_lock.locking[th] < MaxLocking
    /\ last' = Ret(op, "call", th, "none", NoTuple)
    /\ UNCHANGED <<owner, count, counter, links, pc, timed, saved, held,
                   scope, dummy>>

\* _OwnedLock.acquire (= __enter__) called by thread th
GateEnter(th) ==
    /\ GateCall(th, "gate_enter")
    /\ lock_lock' = GateAcquire(lock_lock, th)

\* _OwnedLock.release (and __exit__) called by thread th, after an enter of its
GateExit(th) ==
    /\ lock_lock.inside[th] > 0
    /\ GateCall(th, "gate_exit")
    /\ lock_lock' = GateRelease(lock_lock, th)

GateNext ==
    \E th \in Threads :
        \/ GateEnter(th)
        \/ GateExit(th)

\* threads making enter()/exit() pairs on one _OwnedLock, in any interleaving
GateSpec == Init /\ [][GateNext]_vars

\* -------------------------------------------------------- DummySemaphore
\* DummySemaphore.locked
DummyLocked == FALSE

\* DummySemaphore.ready
DummyReady == TRUE

\* DummySemaphore.wait(timeout)
DummyWait(timeout) == 1

\* mutant: acquire returns None, as before 1.1a1
DummyAcquireNone(blocking, timeout) == FALSE

\* DummySemaphore.acquire(blocking, timeout)
DummyAcquire(blocking, timeout) == TRUE

Bool(b) == IF b THEN "true" ELSE "false"

\* one call on a DummySemaphore by task t; none of them has a wait in it, so
\* the task is where it was when the call returns
DummyCall(t, op, ret, val) ==
    /\ pc[t] = "idle"
    /\ last' = Ret(op, "call", t, ret, val)
    /\ UNCHANGED <<owner, count, counter, links, lock_lock, pc, timed, saved,
                   held, scope>>

DummyAcquireCall(t, blocking, timeout) ==
    /\ dummy.acquires < MaxDummyCalls
    /\ DummyCall(t, "dummy_acquire", Bool(DummyAcquire(blocking, timeout)), NoTuple)
    /\ dummy' = [dummy EXCEPT !.acquires = @ + 1]

\* DummySemaphore.__enter__ and __exit__: "pass"
DummyEnter(t) ==
    /\ dummy.acquires < MaxDummyCalls
    /\ DummyCall(t, "dummy_enter", "none", NoTuple)
    /\ dummy' = [dummy EXCEPT !.acquires = @ + 1]

DummyExit(t) ==
    /\ dummy.releases < MaxDummyCalls
    /\ DummyCall(t, "dummy_exit", "none", NoTuple)
    /\ dummy' = [dummy EXCEPT !.releases = @ + 1]

\* DummySemaphore.release: does nothing
DummyReleaseCall(t) ==
    /\ dummy.releases < MaxDummyCalls
    /\ DummyCall(t, "dummy_release", "none", NoTuple)
    /\ dummy' = [dummy EXCEPT !.releases = @ + 1]

DummyWaitCall(t, timeout) ==
    /\ DummyCall(t, "dummy_wait", "none", <<DummyWait(timeout), None>>)
    /\ UNCHANGED dummy

DummyLockedCall(t) ==
    /\ DummyCall(t, "dummy_locked", Bool(DummyLocked), NoTuple)
    /\ UNCHANGED dummy

DummyReadyCall(t) ==
    /\ DummyCall(t, "dummy_ready", Bool(DummyReady), NoTuple)
    /\ UNCHANGED dummy

DummyNext ==
    \E t \in Tasks :
        \/ \E blocking \in BOOLEAN, timeout \in Timeouts :
              DummyAcquireCall(t, blocking, timeout)
        \/ DummyEnter(t)
        \/ DummyExit(t)
        \/ DummyReleaseCall(t)
        \/ \E timeout \in Timeouts : DummyWaitCall(t, timeout)
        \/ DummyLockedCall(t)
        \/ DummyReadyCall(t)

\* tasks calling one DummySemaphore in any order
DummySpec == Init /\ [][DummyNext]_vars

\* ----------------------------------------------------------------- claims
\* C1: mutual exclusion of RLock: at most one task is between a successful
\* acquire and its matching final release, that task is the recorded owner,
\* and an acquire never returns success while a different task holds the lock.
C1_MutualExclusion ==
    /\ Cardinality(Holders) <= 1
    /\ \A t \in Holders : owner = t /\ count > 0
    /\ (last.op = "acquire" /\ last.ret = "true")
          => /\ owner = last.task
             /\ \A u \in Tasks \ {last.task} : held[u] = 0

C1_Witness ==
    \E t, u \in Tasks :
        /\ t # u
        /\ held[t] = 2
        /\ pc[u] = "acquire_wait"
        /\ last.op = "acquire" /\ last.task = u /\ last.ret = "suspended"

\* C2: count is the number of a task's acquires not yet matched by a release,
\* _is_owned() of a task is true iff that number is positive (iff count > 0
\* when nobody else uses the lock), and an acquire that no other task's hold
\* stands against returns success at once.
C2_CountIsUnmatchedAcquires ==
    /\ \A t \in Tasks : IsOwner(t) <=> held[t] > 0
    /\ \A t \in Tasks : IsOwner(t) => count = held[t]
    /\ owner = None => count = 0
    /\ last.op = "is_owned"
          => (last.ret = "true" <=> held[last.task] > 0)
    /\ (last.op = "is_owned" /\ \A u \in Tasks \ {last.task} : held[u] = 0)
          => (last.ret = "true" <=> count > 0)
    /\ (last.op = "acquire" /\ last.step = "call" /\ last.ret # "true")
          => \E u \in Tasks \ {last.task} : held[u] > 0

C2_Witness ==
    /\ last.op = "release"
    /\ last.ret = "none"
    /\ held[last.task] = 2
    /\ count = 2
    /\ \A u \in Tasks \ {last.task} : pc[u] = "idle"

\* C3: release by a task that is not the owner, the lock held by another or
\* unlocked, raises RuntimeError and changes neither count, owner nor the
\* semaphore.
C3_ReleaseByNonOwner ==
    [][\A t \in Tasks :
         (last'.op = "release" /\ last'.task = t /\ owner # t)
            => /\ last'.ret = "RuntimeError"
               /\ UNCHANGED <<owner, count, counter, links, lock_lock, held>>]_vars

C3_Witness ==
    /\ last.op = "release"
    /\ last.ret = "RuntimeError"
    /\ owner # None
    /\ count = 2

\* C4: _release_save by the owner at depth n >= 1 followed at once by
\* _acquire_restore with the returned tuple gives back the state before the
\* save: same owner, same count n, semaphore counter 0, same waiters.
C4_SaveRestoreRoundTrip ==
    [][/\ last'.op = "release_save"
          => /\ last'.val = <<count, owner>>
             /\ owner = last'.task
             /\ count >= 1
             /\ counter = 0
       /\ (last.op = "release_save" /\ last'.op = "acquire_restore"
             /\ last'.task = last.task)
          => /\ last'.ret = "done"
             /\ owner' = last.task
             /\ owner' = last.val[2]
             /\ count' = last.val[1]
             /\ counter' = 0
             /\ links' = links
             /\ held' = [held EXCEPT ![last.task] = last.val[1]]
             /\ pc' = [pc EXCEPT ![last.task] = "idle"]]_vars

C4_Witness ==
    /\ last.op = "acquire_restore"
    /\ last.step = "call"
    /\ last.ret = "done"
    /\ owner = last.task
    /\ count = 2

\* C5: _release_save by the owner at depth n returns (n, owner) and leaves, in
\* that one step, owner = None, count = 0 and the semaphore released once
\* (counter 0 -> 1); the next acquire of a different task succeeds.
C5_ReleaseSave ==
    [][/\ last'.op = "release_save"
          => /\ owner = last'.task
             /\ count >= 1
             /\ last'.val = <<count, owner>>
             /\ last'.ret = "done"
             /\ owner' = None
             /\ count' = 0
             /\ counter' = counter + 1
             /\ counter' = 1
             /\ links' = links
             /\ pc'[last'.task] = "saved"
             /\ saved'[last'.task] = last'.val
       /\ (last.op = "release_save" /\ last'.op = "acquire"
             /\ last'.step = "call" /\ last'.task # last.task)
          => /\ last'.ret = "true"
             /\ owner' = last'.task
             /\ count' = 1]_vars

C5_Witness ==
    /\ last.op = "acquire"
    /\ last.step = "call"
    /\ last.ret = "true"
    /\ \E u \in Tasks \ {last.task} : pc[u] = "saved" /\ saved[u] = <<2, u>>

\* C6: _acquire_restore completes only when no task holds the lock, and then
\* sets count and owner to the captured values; while another task holds the
\* lock it waits in the semaphore's list and leaves owner and count alone.
C6_RestoreWaits ==
    [][/\ (last'.op = "acquire_restore" /\ last'.ret = "done")
          => /\ owner = None
             /\ count = 0
             /\ counter = 1
             /\ Holders = {}
             /\ count' = saved[last'.task][1]
             /\ owner' = saved[last'.task][2]
             /\ count' >= 1
             /\ owner' = last'.task
             /\ counter' = 0
       /\ (last'.op = "acquire_restore" /\ last'.ret = "suspended")
          => /\ owner # None
             /\ owner # last'.task
             /\ UNCHANGED <<owner, count, counter, held, saved>>
       /\ \A t \in Tasks :
             pc'[t] = "restore_wait"
                => /\ owner' # t
                   /\ held'[t] = 0
                   /\ \E i \in 1 .. Len(links') : links'[i] = t]_vars

C6_Witness ==
    /\ last.op = "acquire_restore"
    /\ last.step = "resume"
    /\ last.ret = "done"
    /\ owner = last.task
    /\ count = 2

\* C7: acquire by the task that owns the lock adds exactly 1 to count, returns
\* success and leaves owner, the semaphore's counter and waiters, and the gate
\* (so: no semaphore call) unchanged, for every blocking and timeout.
C7_ReentrantAcquire ==
    [][\A t \in Tasks :
         (last'.op = "acquire" /\ last'.task = t /\ last'.step = "call" /\ owner = t)
            => /\ count' = count + 1
               /\ last'.ret = "true"
               /\ UNCHANGED <<owner, counter, links, lock_lock, pc, timed>>]_vars

C7_Witness ==
    /\ last.op = "acquire"
    /\ last.step = "call"
    /\ last.ret = "true"
    /\ count = 3
    /\ links # <<>>

\* C8: an acquire of a non-owner that fails returns false and leaves owner,
\* count and the semaphore counter untouched and the caller out of the waiter
\* list; waiters are exactly the suspended tasks; the holder's next release
\* acts as ever.
C8_FailedAcquire ==
    [][/\ \A t \in Tasks :
            (last'.op = "acquire" /\ last'.task = t /\ last'.step = "call"
                /\ owner \notin {None, t} /\ pc'[t] = "idle")
               => last'.ret = "false"
       /\ (last'.op = "acquire" /\ last'.ret = "false")
            => /\ UNCHANGED <<owner, count, counter, held>>
               /\ links' = Unlink(links, last'.task)
               /\ pc'[last'.task] = "idle"
               /\ last'.step = "call" => links' = links
       /\ \A t \in Tasks : (\E i \in 1 .. Len(links') : links'[i] = t) <=> Waiting(t)'
       /\ (last.op = "acquire" /\ last.ret = "false" /\ last'.op = "release"
             /\ last'.task = owner)
            => /\ count' = count - 1
               /\ links' = links
               /\ IF count = 1 THEN owner' = None /\ counter' = 1
                  ELSE owner' = owner /\ counter' = 0]_vars

C8_Witness ==
    /\ last.op = "acquire"
    /\ last.step = "resume"
    /\ last.ret = "false"
    /\ owner \notin {None, last.task}
    /\ count = 2

C10_Cancellation ==
    [][last'.ret = "cancelled"
          => /\ pc[last'.task] \in {"acquire_wait", "restore_wait"}
             /\ pc'[last'.task] = "idle"
             /\ UNCHANGED <<owner, count, counter, held>>
             /\ links' = Unlink(links, last'.task)
             /\ lock_lock'.net = lock_lock.net
             /\ lock_lock'.net = 0
             /\ lock_lock'.owner = None
             /\ lock_lock'.count = 0
             /\ ~lock_lock'.block]_vars

C10_Witness ==
    /\ last.op = "acquire"
    /\ last.ret = "cancelled"
    /\ owner \notin {None, last.task}
    /\ count = 2

\* C11: a with-block on an RLock is balanced on every exit path: when the
\* block is left, by return or by an exception of its body, count is what it
\* was before the block was entered, and if that was 0 the lock is unlocked
\* (owner = None, semaphore released).
C11_ScopedBalanced ==
    [][\A t \in Tasks :
         Len(scope'[t].stack) < Len(scope[t].stack)
            => LET before == scope[t].stack[Len(scope[t].stack)]
               IN  /\ count' = before
                   /\ held'[t] = before
                   /\ IF before = 0
                      THEN owner' = None /\ counter' = 1
                      ELSE owner' = t /\ counter' = 0]_vars

C11_Witness ==
    \E t, u \in Tasks :
        /\ t # u
        /\ scope[t].left = "raise"
        /\ scope[t].stack = <<>>
        /\ scope[u].left = "return"
        /\ owner = None
        /\ counter = 1

\* C12: in every state between two runs of tasks, after any acquire, release
\* and save/restore with the captured tuple, count > 0 iff owner is not None,
\* and count is never negative.
C12_CountIffOwner ==
    /\ count >= 0
    /\ count > 0 <=> owner # None

C12_Witness ==
    /\ last.op = "acquire_restore"
    /\ last.ret = "done"
    /\ count = 2
    /\ owner = last.task
    /\ \E u \in Tasks : pc[u] = "acquire_wait"

\* C13: DummySemaphore never blocks and holds no state: whatever calls came
\* before, acquire returns True for all arguments, wait returns 1, locked
\* returns False, ready returns True, release and entry/exit return at once.
C13_DummyNeverBlocks ==
    /\ \A t \in Tasks : pc[t] = "idle"
    /\ last.op = "dummy_acquire" => last.ret = "true"
    /\ last.op = "dummy_wait" => last.val[1] = 1
    /\ last.op = "dummy_locked" => last.ret = "false"
    /\ last.op = "dummy_ready" => last.ret = "true"
    /\ last.op \in {"dummy_release", "dummy_enter", "dummy_exit"} => last.ret = "none"

C13_Witness ==
    /\ dummy.acquires >= 3
    /\ dummy.releases = 0
    /\ last.op = "dummy_acquire"
    /\ last.ret = "true"

\* C14: an enter() on a free gate takes the OS mutex and sets owner to the
\* caller and depth to 1; an enter() by the owner only adds 1 to depth; an
\* exit() takes 1 from depth and frees the mutex and clears owner exactly when
\* depth reaches 0; so depth is the number of unmatched enter() calls of the
\* owner.
C14_GateEnterExit ==
    [][/\ (last'.op = "gate_enter" /\ lock_lock.owner # last'.task /\ ~lock_lock.block)
          => /\ lock_lock'.owner = last'.task
             /\ lock_lock'.block
             /\ lock_lock'.count = 1
       /\ (last'.op = "gate_enter" /\ lock_lock.owner = last'.task)
          => /\ lock_lock'.count = lock_lock.count + 1
             /\ lock_lock'.block = lock_lock.block
             /\ lock_lock'.owner = lock_lock.owner
       /\ last'.op = "gate_exit"
          => /\ lock_lock'.count = lock_lock.count - 1
             /\ lock_lock'.block <=> lock_lock'.count > 0
             /\ lock_lock'.owner = IF lock_lock'.count > 0 THEN lock_lock.owner ELSE None
       /\ last'.op \in {"gate_enter", "gate_exit"} /\ lock_lock'.owner # None
          => lock_lock'.count = lock_lock'.inside[lock_lock'.owner]]_vars

\* C15: the OS mutex is held iff owner is not None, and the recorded owner is
\* the thread that holds the mutex, in every interleaving of enter()/exit()
\* pairs by the threads.
C15_GateInvariant ==
    /\ lock_lock.block <=> lock_lock.owner # None
    /\ lock_lock.owner # None => lock_lock.owner = lock_lock.holder

C15_Witness ==
    /\ last.op = "gate_enter"
    /\ \A th \in Threads : lock_lock.inside[th] > 0

\* C20: the re-entry guard is balanced: a gate call that is not nested in
\* another one on its thread does its real work and leaves _locking as it
\* found it, so between gate calls every thread's re-entry count is 0.
C20_GuardBalanced ==
    /\ \A th \in Threads : lock_lock.locking[th] = 0
    /\ (last.op = "gate_enter" /\ lock_lock.net = 1) => lock_lock.owner = last.task

\* C16: every change of the semaphore's counter or waiter list made by
\* acquire, release or wait happens with the semaphore's gate held by the
\* thread making it: gate owner that thread, depth at least 1, OS mutex held.
C16_MutationUnderGate ==
    [][(counter' # counter \/ links' # links)
       => /\ lock_lock'.body.owner = ThreadOf(last'.task)
          /\ lock_lock'.body.count >= 1
          /\ lock_lock'.body.block]_vars

\* C17: the gate is never held across a suspension, and a task resuming from
\* _wait holds the gate again before it reads or changes the counter.
C17_GateAroundWait ==
    /\ (\E t \in Tasks : Waiting(t)) => ~lock_lock.block /\ lock_lock.owner = None
    /\ last.step = "resume"
       => /\ lock_lock.body.owner = ThreadOf(last.task)
          /\ lock_lock.body.count >= 1
          /\ lock_lock.body.block

\* C19: at every task switch the RLock's semaphore counter is 0 or 1, and it
\* is 0 exactly when the lock has an owner.
C19_BinaryInStep ==
    /\ counter \in {0, 1}
    /\ counter = 0 <=> owner # None

C19_Witness ==
    \E t \in Tasks :
        /\ pc[t] = "saved"
        /\ saved[t][1] = 2
        /\ owner \notin {None, t}
        /\ counter = 0
        /\ last.op = "acquire"

\* C18 as stated: while the lock is held, no call of acquire, release,
\* _release_save, _acquire_restore or _is_owned by a task that is not the
\* owner changes owner or count or releases the semaphore.
C18_NonOwnerChangesNothing ==
    [][(owner # None /\ last'.task # owner)
       => /\ owner' = owner
          /\ count' = count
          /\ counter' = counter]_vars

\* C18, amended: while the lock is held, no call of acquire, release,
\* _acquire_restore or _is_owned by a task that is not the owner changes owner
\* or count or releases the semaphore; _release_save tests no ownership, and
\* called by another task it returns the owner's (count, owner), clears both
\* and releases the semaphore.
C18_NonOwnerExceptSave ==
    [][(owner # None /\ last'.task # owner)
       => IF last'.op = "release_save"
          THEN /\ owner' = None
               /\ count' = 0
               /\ counter' = counter + 1
               /\ last'.val = <<count, owner>>
          ELSE /\ owner' = owner
               /\ count' = count
               /\ counter' = counter]_vars

C18_Witness ==
    /\ last.op = "release_save"
    /\ last.val[1] = 2
    /\ last.val[2] \notin {None, last.task}
    /\ owner = None
    /\ counter = 1
    /\ \E u \in Tasks : pc[u] = "acquire_wait"

====
